---- MODULE Spec2Model ----
(***************************************************************************)
(* Model of window-setup-fnm.mjs: the one-shot configurator that makes     *)
(* PowerShell and cmd.exe initialise fnm.  The state is the part of the    *)
(* machine the script touches (two candidate PowerShell profiles and their *)
(* directories, the cmd init script, the AutoRun value of the Command      *)
(* Processor key) plus the position, console output and exit status of the *)
(* current run.  File contents and registry data are real strings, so the  *)
(* substring guards, the template literals, String.prototype.trim and the  *)
(* regular expression of setupCmd are computed, not assumed.               *)
(***************************************************************************)
EXTENDS Integers, Sequences, FiniteSets, TLC

VARIABLES
    fs,        \* files: path -> content, the domain is the set of existing files
    dirs,      \* existing profile directories
    registry,  \* values of HKCU\Software\Microsoft\Command Processor: name -> [type, data]
    pc,        \* position of the current run
    exitCode,  \* <<exit status>> of the current run, NoExit while it runs
    out,       \* console lines of the current run
    ops,       \* file-system and registry calls of the current run, in order
    snap,      \* fs, dirs and registry when the current run started
    init0,     \* fs and registry before the first run
    profiled,  \* resolved profile path and its content when a run first completed setupPowerShell
    runs       \* number of runs started

vars == <<fs, dirs, registry, pc, exitCode, out, ops, snap, init0, profiled, runs>>

----------------------------------------------------------------------------
(* Bounds *)

MaxRuns == 3

----------------------------------------------------------------------------
(* String helpers: what the JavaScript string methods compute *)

CharAt(s, i) == SubSeq(s, i, i)

WhiteSpace == {" ", "\t", "\n", "\r", "\f"}

LineTerminator == {"\n", "\r"}

\* String.prototype.includes
Includes(s, sub) ==
    \E i \in 1..(Len(s) - Len(sub) + 1) : SubSeq(s, i, i + Len(sub) - 1) = sub

\* s.startsWith(sub, i) with 1-based i
StartsAt(s, i, sub) ==
    /\ i + Len(sub) - 1 <= Len(s)
    /\ SubSeq(s, i, i + Len(sub) - 1) = sub

\* first index >= i that is past the end of s or whose character is not in set
RECURSIVE SkipWhile(_, _, _)
SkipWhile(s, i, set) ==
    IF i > Len(s) \/ CharAt(s, i) \notin set THEN i ELSE SkipWhile(s, i + 1, set)

\* first index >= i that is past the end of s or whose character is in set
SkipUntil(s, i, set) ==
    LET hits == {j \in i..Len(s) : CharAt(s, j) \in set}
    IN  IF hits = {} THEN Len(s) + 1 ELSE CHOOSE j \in hits : \A k \in hits : j <= k

\* last index <= i that is 0 or whose character is in set
BackUntil(s, i, set) ==
    LET hits == {j \in 1..i : CharAt(s, j) \in set}
    IN  IF hits = {} THEN 0 ELSE CHOOSE j \in hits : \A k \in hits : k <= j

\* last index <= i that is 0 or whose character is not in set
RECURSIVE BackWhile(_, _, _)
BackWhile(s, i, set) ==
    IF i = 0 \/ CharAt(s, i) \notin set THEN i ELSE BackWhile(s, i - 1, set)

\* String.prototype.trim
trim(s) == SubSeq(s, SkipWhile(s, 1, WhiteSpace), BackWhile(s, Len(s), WhiteSpace))

\* path.join(p, '..'): p without its last component
ParentDir(p) == SubSeq(p, 1, BackUntil(p, Len(p), {"\\"}) - 1)

\* number of occurrences of sub in s
Occurrences(s, sub) ==
    Cardinality({i \in 1..(Len(s) - Len(sub) + 1) : SubSeq(s, i, i + Len(sub) - 1) = sub})

IsPrefix(p, s) == Len(p) <= Len(s) /\ SubSeq(s, 1, Len(p)) = p

----------------------------------------------------------------------------
(* Script constants *)

USER_HOME == "C:\\Users\\dev"

POWERSHELL_PROFILE_5 ==
    USER_HOME \o "\\Documents\\WindowsPowerShell\\Microsoft.PowerShell_profile.ps1"

POWERSHELL_PROFILE_6 ==
    USER_HOME \o "\\Documents\\PowerShell\\Microsoft.PowerShell_profile.ps1"

CMD_INIT_FILE == USER_HOME \o "\\fnm_init.cmd"

fnmInitLine ==
    "fnm env --use-on-cd --corepack-enabled --shell powershell | Out-String | Invoke-Expression"

cmdContent ==
    "@echo off\n"
    \o ":: for /F will launch a new instance of cmd so we create a guard to prevent an infinite loop\n"
    \o "if not defined FNM_AUTORUN_GUARD (\n"
    \o "    set \"FNM_AUTORUN_GUARD=AutorunGuard\"\n"
    \o "    FOR /f \"tokens=*\" %%z IN ('fnm env --use-on-cd --corepack-enabled --shell cmd') DO CALL %%z\n"
    \o ")\n"

NoExit == << >>

----------------------------------------------------------------------------
(* File system and registry primitives *)

existsSync(f, p) == p \in DOMAIN f

\* writeFileSync(p, c) on success: creates or overwrites p
WriteFile(f, p, c) == [q \in (DOMAIN f) \cup {p} |-> IF q = p THEN c ELSE f[q]]

Op(o, a, v) == [op |-> o, arg |-> a, val |-> v]

\* stdout of `reg query "<regPath>" /v AutoRun` for a value that exists:
\* a blank line, the key, the line "    <name>    <type>    <data>", blank lines
QueryOutput(v) ==
    "\r\nHKEY_CURRENT_USER\\Software\\Microsoft\\Command Processor\r\n"
    \o "    AutoRun    " \o v.type \o "    " \o v.data \o "\r\n\r\n"

\* `reg query` exits with status 1 when the value does not exist, and
\* execSync throws on a non-zero exit status
QueryThrows(reg) == "AutoRun" \notin DOMAIN reg

\* effect of a successful `reg add ... /v AutoRun /t REG_SZ /d "<data>" /f`;
\* a `reg add` that fails leaves the value as it was.  The data of the
\* initial states holds no double quote, so the quoting of the command line
\* passes it unchanged.
RegAdd(reg, data) == [n \in (DOMAIN reg) \cup {"AutoRun"} |->
                        IF n = "AutoRun" THEN [type |-> "REG_SZ", data |-> data] ELSE reg[n]]

----------------------------------------------------------------------------
(* Preflight: lines 19-29 *)

\* preflight without the process.exit(1) of line 28
preflightNoExit(installed) ==
    IF installed
    THEN [out |-> <<"fnm is installed">>,
          ops |-> << >>, pc |-> "powershell", exitCode |-> NoExit]
    ELSE [out |-> <<"fnm is not installed or not in PATH">>,
          ops |-> <<Op("throw", "fnm --version", "")>>, pc |-> "powershell", exitCode |-> NoExit]

preflight(installed) ==
    IF installed
    THEN [out |-> <<"fnm is installed">>,
          ops |-> << >>, pc |-> "powershell", exitCode |-> NoExit]
    ELSE [out |-> <<"fnm is not installed or not in PATH">>,
          ops |-> <<Op("throw", "fnm --version", "")>>, pc |-> "exited", exitCode |-> <<1>>]

----------------------------------------------------------------------------
(* setupPowerShell: lines 32-68 *)

\* ResolveProfile preferring the PowerShell 6 profile whenever it exists
ResolveProfileSixFirst(f) ==
    IF existsSync(f, POWERSHELL_PROFILE_6)
    THEN POWERSHELL_PROFILE_6
    ELSE POWERSHELL_PROFILE_5

\* lines 36-39
ResolveProfile(f) ==
    IF ~existsSync(f, POWERSHELL_PROFILE_5) /\ existsSync(f, POWERSHELL_PROFILE_6)
    THEN POWERSHELL_PROFILE_6
    ELSE POWERSHELL_PROFILE_5

\* HasFnmConfig looking for a token the appended block does not contain
HasFnmConfigOtherToken(profileContent) == Includes(profileContent, "fnm env --shell")

\* line 47
HasFnmConfig(profileContent) == Includes(profileContent, "fnm env")

\* NewContent that drops what the profile held
NewContentOverwrite(profileContent) ==
    "# fnm (Fast Node Manager)\n" \o fnmInitLine \o "\n"

\* lines 61-63; the empty string is falsy
NewContent(profileContent) ==
    IF profileContent # ""
    THEN profileContent \o "\n\n# fnm (Fast Node Manager)\n" \o fnmInitLine \o "\n"
    ELSE "# fnm (Fast Node Manager)\n" \o fnmInitLine \o "\n"

FsErrors == {"none", "read", "mkdir", "write"}

\* The whole function.  err is the file-system call that throws in this run,
\* if the run gets to it.  A call that throws changes nothing.
setupPowerShell(f, d, err) ==
    LET profilePath == ResolveProfile(f)
        profileDir == ParentDir(profilePath)
        hello == <<"Setting up PowerShell profile...">>
        same == [fs |-> f, dirs |-> d]
    IN  IF existsSync(f, profilePath)
        THEN IF err = "read"
             THEN same @@ [ops |-> <<Op("throw", "read", profilePath)>>, out |-> hello,
                           thrown |-> "EACCES: permission denied, open"]
             ELSE IF HasFnmConfig(f[profilePath])
             THEN same @@ [ops |-> << >>,
                           out |-> hello \o <<"PowerShell profile already contains fnm configuration">>,
                           thrown |-> ""]
             ELSE IF err = "write"
             THEN same @@ [ops |-> <<Op("throw", "write", profilePath)>>, out |-> hello,
                           thrown |-> "EPERM: operation not permitted, open"]
             ELSE [fs |-> WriteFile(f, profilePath, NewContent(f[profilePath])), dirs |-> d,
                   ops |-> <<Op("write", profilePath, NewContent(f[profilePath]))>>,
                   out |-> hello \o <<"PowerShell profile configured">>,
                   thrown |-> ""]
        ELSE IF profileDir \notin d /\ err = "mkdir"
             THEN same @@ [ops |-> <<Op("throw", "mkdir", profileDir)>>, out |-> hello,
                           thrown |-> "EPERM: operation not permitted, mkdir"]
             ELSE LET made == IF profileDir \notin d
                              THEN <<Op("mkdir", profileDir, "")>> ELSE << >>
                      d2 == d \cup {profileDir}
                  IN  IF err = "write"
                      THEN [fs |-> f, dirs |-> d2,
                            ops |-> made \o <<Op("throw", "write", profilePath)>>,
                            out |-> hello, thrown |-> "EPERM: operation not permitted, open"]
                      ELSE [fs |-> WriteFile(f, profilePath, NewContent("")), dirs |-> d2,
                            ops |-> made \o <<Op("write", profilePath, NewContent(""))>>,
                            out |-> hello \o <<"PowerShell profile configured">>,
                            thrown |-> ""]

----------------------------------------------------------------------------
(* setupCmd: lines 71-119 *)

\* WriteInitScript that keeps an init script that is already there
WriteInitScriptIfAbsent(f) ==
    IF existsSync(f, CMD_INIT_FILE) THEN f ELSE WriteFile(f, CMD_INIT_FILE, cmdContent)

\* line 83: writeFileSync(CMD_INIT_FILE, cmdContent) on success
WriteInitScript(f) == WriteFile(f, CMD_INIT_FILE, cmdContent)

\* AlreadyConfigured comparing for equality instead of searching
AlreadyConfiguredEquals(currentAutoRun) == currentAutoRun = CMD_INIT_FILE

\* line 91
AlreadyConfigured(currentAutoRun) == Includes(currentAutoRun, CMD_INIT_FILE)

\* /AutoRun\s+REG_SZ\s+(.+)/ tried at index i of s: the captured group, or
\* NoMatch.  \s+ is greedy and gives characters back only when (.+) would
\* otherwise be empty; "." matches anything but a line terminator.
NoMatch == [found |-> FALSE, group |-> ""]

MatchAt(s, i) ==
    IF ~StartsAt(s, i, "AutoRun") THEN NoMatch
    ELSE LET a == i + Len("AutoRun")
             b == SkipWhile(s, a, WhiteSpace)
         IN  IF b = a \/ ~StartsAt(s, b, "REG_SZ") THEN NoMatch
             ELSE LET c == b + Len("REG_SZ")
                      e == SkipWhile(s, c, WhiteSpace)
                      g == BackWhile(s, Len(s), LineTerminator)
                  IN  IF e = c THEN NoMatch
                      ELSE IF e <= Len(s)
                      THEN [found |-> TRUE,
                            group |-> SubSeq(s, e, SkipUntil(s, e, LineTerminator) - 1)]
                      ELSE IF g <= c THEN NoMatch
                      ELSE [found |-> TRUE, group |-> SubSeq(s, g, g)]

\* line 97: String.prototype.match, the leftmost match
Match(s) ==
    LET hits == {i \in 1..Len(s) : StartsAt(s, i, "AutoRun") /\ MatchAt(s, i).found}
    IN  IF hits = {} THEN NoMatch
        ELSE MatchAt(s, CHOOSE i \in hits : \A j \in hits : i <= j)

\* lines 95-103
ExistingValue(currentAutoRun) ==
    LET match == Match(currentAutoRun)
    IN  IF match.found THEN trim(match.group) ELSE ""

\* lines 106-108
NewAutoRun(existingValue) ==
    IF existingValue # "" THEN existingValue \o " & " \o CMD_INIT_FILE ELSE CMD_INIT_FILE

\* AutoRunCatch that lets the error go on to the caller
AutoRunCatchRethrow ==
    [out |-> << >>, thrown |-> "Command failed: reg"]

\* lines 113-118: the catch around the registry calls
AutoRunCatch ==
    [out |-> <<"Could not configure AutoRun automatically",
               "Manual setup: Add this to registry:">>,
     thrown |-> ""]

\* The whole function.  initErr: writeFileSync of the init script throws;
\* addOk: `reg add` exits with status 0.
setupCmd(f, reg, initErr, addOk) ==
    LET hello == <<"Setting up Command Prompt (cmd.exe)...">>
        created == <<"Created initialization script">>
        f2 == WriteInitScript(f)
        wrote == <<Op("write", CMD_INIT_FILE, cmdContent)>>
    IN  IF initErr
        THEN [fs |-> f, registry |-> reg, ops |-> <<Op("throw", "write", CMD_INIT_FILE)>>,
              out |-> hello, thrown |-> "EPERM: operation not permitted, open"]
        ELSE IF QueryThrows(reg)
        THEN [fs |-> f2, registry |-> reg, ops |-> wrote \o <<Op("throw", "reg query", "")>>,
              out |-> hello \o created \o AutoRunCatch.out, thrown |-> AutoRunCatch.thrown]
        ELSE LET currentAutoRun == trim(QueryOutput(reg["AutoRun"]))
                 newAutoRun == NewAutoRun(ExistingValue(currentAutoRun))
             IN  IF AlreadyConfigured(currentAutoRun)
                 THEN [fs |-> f2, registry |-> reg, ops |-> wrote,
                       out |-> hello \o created \o <<"AutoRun already configured">>,
                       thrown |-> ""]
                 ELSE IF addOk
                 THEN [fs |-> f2, registry |-> RegAdd(reg, newAutoRun),
                       ops |-> wrote \o <<Op("reg add", "AutoRun", newAutoRun)>>,
                       out |-> hello \o created \o <<"Configured AutoRun in registry">>,
                       thrown |-> ""]
                 ELSE [fs |-> f2, registry |-> reg,
                       ops |-> wrote \o <<Op("throw", "reg add", newAutoRun)>>,
                       out |-> hello \o created \o AutoRunCatch.out,
                       thrown |-> AutoRunCatch.thrown]

----------------------------------------------------------------------------
(* Main execution: lines 121-136 *)

\* lines 133-135
MainCatch(message) ==
    [out |-> <<"Error during setup:", message>>, pc |-> "exited", exitCode |-> <<1>>]

\* lines 126-132, then the process ends
Summary ==
    [out |-> <<"Setup complete!">>,
     pc |-> "exited", exitCode |-> <<0>>]

----------------------------------------------------------------------------
(* Initial states: what the machine may hold before the first run *)

ProfileSamples ==
    { "",
      "Set-Alias ll ls",
      "Import-Module posh-git\n",
      "fnm env --use-on-cd | Out-String | Invoke-Expression\n",
      "# fnm (Fast Node Manager)\n" \o fnmInitLine \o "\n" }

InitScriptSamples == { "rem old\n" }

AutoRunSamples ==
    { [type |-> "REG_SZ", data |-> ""],
      [type |-> "REG_SZ", data |-> "C:\\tools\\aliases.cmd"],
      [type |-> "REG_SZ", data |-> CMD_INIT_FILE],
      [type |-> "REG_SZ", data |-> "C:\\tools\\aliases.cmd & " \o CMD_INIT_FILE],
      [type |-> "REG_EXPAND_SZ", data |-> "%USERPROFILE%\\aliases.cmd"] }

ProfilePaths == {POWERSHELL_PROFILE_5, POWERSHELL_PROFILE_6}

InitFiles ==
    UNION { [present -> ProfileSamples] : present \in SUBSET ProfilePaths }

WithInitScript(f) ==
    {f} \cup {WriteFile(f, CMD_INIT_FILE, c) : c \in InitScriptSamples}

InitRegistries ==
    { << >> } \cup { [n \in {"AutoRun"} |-> v] : v \in AutoRunSamples }

Init ==
    /\ \E f \in InitFiles : fs \in WithInitScript(f)
    /\ \E d \in SUBSET {ParentDir(p) : p \in ProfilePaths} :
          dirs = d \cup {ParentDir(p) : p \in DOMAIN fs \cap ProfilePaths}
    /\ registry \in InitRegistries
    /\ pc = "preflight"
    /\ exitCode = NoExit
    /\ out = << >>
    /\ ops = << >>
    /\ snap = [fs |-> fs, dirs |-> dirs, registry |-> registry]
    /\ init0 = [fs |-> fs, registry |-> registry]
    /\ profiled = << >>
    /\ runs = 1

----------------------------------------------------------------------------
(* Actions *)

Preflight ==
    /\ pc = "preflight"
    /\ \E installed \in BOOLEAN :
          LET r == preflight(installed)
          IN  /\ out' = out \o r.out
              /\ ops' = ops \o r.ops
              /\ pc' = r.pc
              /\ exitCode' = r.exitCode
    /\ UNCHANGED <<fs, dirs, registry, snap, init0, profiled, runs>>

SetupPowerShell ==
    /\ pc = "powershell"
    /\ \E err \in FsErrors :
          LET r == setupPowerShell(fs, dirs, err)
              c == MainCatch(r.thrown)
          IN  /\ fs' = r.fs
              /\ dirs' = r.dirs
              /\ ops' = ops \o r.ops
              /\ IF r.thrown = ""
                 THEN /\ out' = out \o r.out
                      /\ pc' = "cmd"
                      /\ exitCode' = exitCode
                      /\ profiled' = IF profiled = << >>
                                     THEN <<ResolveProfile(r.fs), r.fs[ResolveProfile(r.fs)]>>
                                     ELSE profiled
                 ELSE /\ out' = out \o r.out \o c.out
                      /\ pc' = c.pc
                      /\ exitCode' = c.exitCode
                      /\ profiled' = profiled
    /\ UNCHANGED <<registry, snap, init0, runs>>

SetupCmd ==
    /\ pc = "cmd"
    /\ \E initErr \in BOOLEAN, addOk \in BOOLEAN :
          LET r == setupCmd(fs, registry, initErr, addOk)
              c == MainCatch(r.thrown)
          IN  /\ fs' = r.fs
              /\ registry' = r.registry
              /\ ops' = ops \o r.ops
              /\ IF r.thrown = ""
                 THEN /\ out' = out \o r.out
                      /\ pc' = "summary"
                      /\ exitCode' = exitCode
                 ELSE /\ out' = out \o r.out \o c.out
                      /\ pc' = c.pc
                      /\ exitCode' = c.exitCode
    /\ UNCHANGED <<dirs, snap, init0, profiled, runs>>

Complete ==
    /\ pc = "summary"
    /\ out' = out \o Summary.out
    /\ pc' = Summary.pc
    /\ exitCode' = Summary.exitCode
    /\ UNCHANGED <<fs, dirs, registry, ops, snap, init0, profiled, runs>>

\* the script is started again
Rerun ==
    /\ pc = "exited"
    /\ runs < MaxRuns
    /\ runs' = runs + 1
    /\ pc' = "preflight"
    /\ exitCode' = NoExit
    /\ out' = << >>
    /\ ops' = << >>
    /\ snap' = [fs |-> fs, dirs |-> dirs, registry |-> registry]
    /\ UNCHANGED <<fs, dirs, registry, init0, profiled>>

Next == Preflight \/ SetupPowerShell \/ SetupCmd \/ Complete \/ Rerun

Spec == Init /\ [][Next]_vars

----------------------------------------------------------------------------
(* Vocabulary of the properties *)

Range(q) == {q[i] : i \in 1..Len(q)}

\* the current run made this call, and it succeeded
Did(o, a) == \E i \in 1..Len(ops) : ops[i].op = o /\ ops[i].arg = a

\* the current run made this call on this target, and it threw
Threw(call, target) ==
    \E i \in 1..Len(ops) : ops[i].op = "throw" /\ ops[i].arg = call /\ ops[i].val = target

\* the current run called `reg add`, whether it succeeded or not
AddAttempts ==
    {i \in 1..Len(ops) : ops[i].op = "reg add" \/ (ops[i].op = "throw" /\ ops[i].arg = "reg add")}

ProfileWrites == {i \in 1..Len(ops) : ops[i].op = "write" /\ ops[i].arg \in ProfilePaths}

FnmBlock == "# fnm (Fast Node Manager)\n" \o fnmInitLine \o "\n"

\* the AutoRun data of a registry, <<>> when the value does not exist
AutoRunOf(reg) == IF "AutoRun" \in DOMAIN reg THEN <<reg["AutoRun"].data>> ELSE << >>

\* the content of a file, <<>> when it does not exist
FileOf(f, p) == IF p \in DOMAIN f THEN <<f[p]>> ELSE << >>

RunEnded == pc = "exited"

\* setupCmd of the current run has written the init script and gone on to the registry
ReachedRegistry == Did("write", CMD_INIT_FILE)

RegAddThrew == \E i \in 1..Len(ops) : ops[i].op = "throw" /\ ops[i].arg = "reg add"

ProfileStepThrew ==
    \E i \in 1..Len(ops) : /\ ops[i].op = "throw"
                           /\ ops[i].arg \in {"read", "mkdir", "write"}
                           /\ ops[i].val # CMD_INIT_FILE

----------------------------------------------------------------------------
(* Properties *)

\* C1: when the AutoRun query fails because the value does not exist, or
\* returns no data, setupCmd goes on to call `reg add`, the value it passes
\* is the init-script path alone, and no manual-setup warning is reported.
C1_UnsetIsNoExistingValue ==
    (ReachedRegistry /\ AutoRunOf(snap.registry) \in {<< >>, <<"">>})
        => /\ AddAttempts # {}
           /\ \A i \in AddAttempts : ops[i].val = CMD_INIT_FILE
           /\ (~RegAddThrew => "Manual setup: Add this to registry:" \notin Range(out))

\* C2 as claimed: once a run has completed the profile step the resolved
\* profile stays byte-identical, and for every initial state of the two
\* candidates the init line occurs in it exactly once.
C2_ExactlyOnceFromAnyStart ==
    profiled # << >>
        => /\ FileOf(fs, profiled[1]) = <<profiled[2]>>
           /\ Occurrences(fs[profiled[1]], fnmInitLine) = 1

\* C2 as amended: once a run has completed the profile step, every later
\* run resolves the same profile and leaves it byte-identical; a run whose
\* resolved profile contains 'fnm env' when it starts writes no profile;
\* the init line occurs exactly once when the profile resolved before the
\* first run did not contain 'fnm env', and otherwise the profile is still
\* what it was before the first run.
C2_ProfileIdempotent ==
    LET p0 == ResolveProfile(init0.fs)
        ps == ResolveProfile(snap.fs)
        guarded(f, p) == p \in DOMAIN f /\ Includes(f[p], "fnm env")
    IN  /\ guarded(snap.fs, ps) => (ProfileWrites = {} /\ FileOf(fs, ps) = FileOf(snap.fs, ps))
        /\ profiled # << >>
              => /\ ResolveProfile(fs) = profiled[1]
                 /\ profiled[1] = p0
                 /\ FileOf(fs, profiled[1]) = <<profiled[2]>>
                 /\ IF guarded(init0.fs, p0)
                    THEN fs[p0] = init0.fs[p0]
                    ELSE Occurrences(fs[p0], fnmInitLine) = 1

\* a second run has completed the profile step on a profile the first run wrote
C2_Witness ==
    /\ runs = 2
    /\ pc = "cmd"
    /\ profiled # << >>
    /\ ResolveProfile(init0.fs) \in DOMAIN init0.fs
    /\ init0.fs[ResolveProfile(init0.fs)] = "Set-Alias ll ls"
    /\ Occurrences(fs[profiled[1]], fnmInitLine) = 1

\* C3: a profile write of the current run leaves, for a profile that held
\* non-empty content C, exactly C, "\n\n" and the two-line block, with C an
\* unchanged prefix; for a profile that did not exist, exactly the block.
C3_AppendedContent ==
    \A i \in ProfileWrites :
        LET p == ops[i].arg
        IN  /\ p \in DOMAIN fs
            /\ (p \in DOMAIN snap.fs /\ snap.fs[p] # "")
                  => /\ fs[p] = snap.fs[p] \o "\n\n" \o FnmBlock
                     /\ IsPrefix(snap.fs[p], fs[p])
                     /\ ~Includes(snap.fs[p], "fnm env")
            /\ p \notin DOMAIN snap.fs => fs[p] = FnmBlock

\* the block has been appended to a profile that held unrelated content
C3_Witness ==
    \E i \in ProfileWrites :
        /\ ops[i].arg \in DOMAIN snap.fs
        /\ snap.fs[ops[i].arg] = "Set-Alias ll ls"
        /\ fs[ops[i].arg] = "Set-Alias ll ls\n\n" \o FnmBlock

\* C4: when the AutoRun value holds data E that does not contain the
\* init-script path and `reg add` succeeds, the value is '<E> & <path>'.
C4_ExistingValuePreserved ==
    (/\ Did("reg add", "AutoRun")
     /\ AutoRunOf(snap.registry) # << >>
     /\ snap.registry["AutoRun"].data # ""
     /\ ~Includes(snap.registry["AutoRun"].data, CMD_INIT_FILE))
        => AutoRunOf(registry) = <<snap.registry["AutoRun"].data \o " & " \o CMD_INIT_FILE>>

\* C5: a run that starts with AutoRun data containing the init-script path
\* never calls `reg add` and leaves the value as it was; once setupCmd has
\* got to the registry it has reported 'AutoRun already configured'.
C5_AlreadyConfiguredNoWrite ==
    (AutoRunOf(snap.registry) # << >> /\ Includes(snap.registry["AutoRun"].data, CMD_INIT_FILE))
        => /\ AddAttempts = {}
           /\ registry = snap.registry
           /\ ReachedRegistry => /\ "AutoRun already configured" \in Range(out)
                                 /\ "Configured AutoRun in registry" \notin Range(out)
                                 /\ "Could not configure AutoRun automatically" \notin Range(out)

\* a run that found the path inside a longer AutoRun value has ended
C5_Witness ==
    /\ RunEnded
    /\ exitCode = <<0>>
    /\ AutoRunOf(snap.registry) = <<"C:\\tools\\aliases.cmd & " \o CMD_INIT_FILE>>
    /\ "AutoRun already configured" \in Range(out)
    /\ registry = snap.registry

\* C6: when `reg add` fails the run is not aborted: the warning and the
\* manual instructions are reported, the run goes on to the summary and
\* ends with status 0, and the files written earlier in the run (profile,
\* init script) hold what was written.
C6_RegAddFailureRecovered ==
    RegAddThrew
        => /\ pc \in {"summary", "exited"}
           /\ exitCode = IF RunEnded THEN <<0>> ELSE NoExit
           /\ RunEnded => "Setup complete!" \in Range(out)
           /\ "Could not configure AutoRun automatically" \in Range(out)
           /\ "Manual setup: Add this to registry:" \in Range(out)
           /\ "Error during setup:" \notin Range(out)
           /\ FileOf(fs, CMD_INIT_FILE) = <<cmdContent>>
           /\ \A i \in 1..Len(ops) :
                 ops[i].op = "write" => FileOf(fs, ops[i].arg) = <<ops[i].val>>

\* a run that wrote a profile and then failed to write AutoRun has ended with status 0
C6_Witness ==
    /\ RunEnded
    /\ RegAddThrew
    /\ ProfileWrites # {}
    /\ exitCode = <<0>>

\* C7: the steps run in order and a fatal failure ends the run with status
\* 1 before a later step has an effect: nothing is modified before the
\* profile step, the init script and AutoRun are not modified before the
\* cmd step; after a failed dependency check no file, directory or AutoRun
\* value is modified; after a file-system error in the profile step the
\* init script and AutoRun are not modified; after a failed init-script
\* write AutoRun is not modified.
C7_FatalFailureStopsLaterSteps ==
    LET initScriptSame == FileOf(fs, CMD_INIT_FILE) = FileOf(snap.fs, CMD_INIT_FILE)
        fatal == \/ Threw("fnm --version", "")
                 \/ ProfileStepThrew
                 \/ Threw("write", CMD_INIT_FILE)
    IN  /\ pc \in {"preflight", "powershell"}
           => fs = snap.fs /\ dirs = snap.dirs /\ registry = snap.registry
        /\ pc = "cmd" => initScriptSame /\ registry = snap.registry
        /\ fatal => RunEnded /\ exitCode = <<1>> /\ "Setup complete!" \notin Range(out)
        /\ Threw("fnm --version", "")
           => fs = snap.fs /\ dirs = snap.dirs /\ registry = snap.registry
        /\ ProfileStepThrew => initScriptSame /\ registry = snap.registry
        /\ Threw("write", CMD_INIT_FILE) => initScriptSame /\ registry = snap.registry
        /\ exitCode = <<0>> => ~fatal

\* a run has ended with status 1 on a failed profile write, after creating the directory
C7_Witness ==
    /\ RunEnded
    /\ exitCode = <<1>>
    /\ Did("mkdir", ParentDir(POWERSHELL_PROFILE_5))
    /\ Threw("write", POWERSHELL_PROFILE_5)
    /\ FileOf(snap.fs, CMD_INIT_FILE) = <<"rem old\n">>
    /\ AutoRunOf(snap.registry) = <<"C:\\tools\\aliases.cmd">>

\* C8: once setupCmd has written the init script, the init script is the
\* fixed template, whatever it held before, in every run and whatever the
\* registry calls of the run do.
C8_InitScriptIsTemplate ==
    ReachedRegistry => FileOf(fs, CMD_INIT_FILE) = <<cmdContent>>

\* a second run has rewritten an init script that first held other content, and then failed on `reg add`
C8_Witness ==
    /\ runs = 2
    /\ RunEnded
    /\ ReachedRegistry
    /\ RegAddThrew
    /\ FileOf(init0.fs, CMD_INIT_FILE) = <<"rem old\n">>
    /\ FileOf(fs, CMD_INIT_FILE) = <<cmdContent>>

\* C9: the target is the PowerShell 6 profile only when the first candidate
\* is absent and the second exists, and the first candidate in the three
\* other cases; a run writes at most the target, once; the other candidate
\* and its directory are neither created nor modified; when neither exists
\* the directory of the first candidate exists before the write.
C9_ProfileResolution ==
    LET e5 == POWERSHELL_PROFILE_5 \in DOMAIN snap.fs
        e6 == POWERSHELL_PROFILE_6 \in DOMAIN snap.fs
        target == CASE e5 /\ e6 -> POWERSHELL_PROFILE_5
                    [] e5 /\ ~e6 -> POWERSHELL_PROFILE_5
                    [] ~e5 /\ e6 -> POWERSHELL_PROFILE_6
                    [] ~e5 /\ ~e6 -> POWERSHELL_PROFILE_5
        other == CHOOSE p \in ProfilePaths : p # target
    IN  /\ \A i \in 1..Len(ops) :
              (ops[i].op = "throw" /\ ops[i].val \in ProfilePaths) => ops[i].val = target
        /\ \A i \in ProfileWrites : ops[i].arg = target
        /\ Cardinality(ProfileWrites) <= 1
        /\ FileOf(fs, other) = FileOf(snap.fs, other)
        /\ (ParentDir(other) \in dirs) = (ParentDir(other) \in snap.dirs)
        /\ (~e5 /\ ~e6)
              => \A i \in ProfileWrites :
                    /\ ParentDir(POWERSHELL_PROFILE_5) \in dirs
                    /\ ParentDir(POWERSHELL_PROFILE_5) \notin snap.dirs
                          => \E j \in 1..(i - 1) :
                                ops[j] = Op("mkdir", ParentDir(POWERSHELL_PROFILE_5), "")

\* neither profile nor the first directory existed, and the first profile has been written
C9_Witness ==
    /\ DOMAIN snap.fs \cap ProfilePaths = {}
    /\ ParentDir(POWERSHELL_PROFILE_5) \notin snap.dirs
    /\ ProfileWrites # {}
    /\ FileOf(fs, POWERSHELL_PROFILE_5) = <<FnmBlock>>
    /\ POWERSHELL_PROFILE_6 \notin DOMAIN fs

\* C10: starting from an AutoRun value that does not exist or whose data
\* does not contain the init-script path, after any runs the data contains
\* the path at most once and the data held at first is a prefix of it.
C10_PathOnceInitialPrefix ==
    (AutoRunOf(init0.registry) = << >>
        \/ ~Includes(init0.registry["AutoRun"].data, CMD_INIT_FILE))
        => /\ AutoRunOf(registry) # << >>
              => Occurrences(registry["AutoRun"].data, CMD_INIT_FILE) <= 1
           /\ AutoRunOf(init0.registry) # << >>
              => /\ AutoRunOf(registry) # << >>
                 /\ IsPrefix(init0.registry["AutoRun"].data, registry["AutoRun"].data)

====
